---- MODULE Spec2Model ----
(***************************************************************************)
(* geoip-rs: the in-memory GeoIP database (src/src/lib.rs) and its dataset *)
(* loader (src/src/datasets.rs).                                           *)
(*                                                                         *)
(* An Ipv4Addr is its four octets <<a, b, c, d>> (std::net::Ipv4Addr is    *)
(* stored as [u8; 4]); an Ipv4Net is an address and a prefix length, the   *)
(* address kept as parsed, host bits included (ipnet::Ipv4Net).  A string  *)
(* is a sequence of one-character strings.  Option<T> values are records   *)
(* tagged "Some" / "None"; a call that panics (a failed unwrap) leaves the *)
(* outcome tagged "Panic".  No key exceeds 255255, so u32 never wraps.     *)
(***************************************************************************)
EXTENDS Integers, Sequences, FiniteSets, TLC

VARIABLES
    pc,         \* "blocks" | "locations" | "frozen": where GeoIPDB::new is; "pure" in the function specs
    rawRows,    \* the RawBlock rows the blocks CSV reader has yielded so far
    admitted,   \* the Blocks parse_blocks_csv has yielded so far
    blocks,     \* GeoIPDB.blocks: HashMap<u32, Vec<Block>>
    locRows,    \* the Location rows the locations CSV reader has yielded so far
    locations,  \* GeoIPDB.locations: HashMap<u32, Location>
    op,         \* the last call made: "none", "resolve", "get_location", ...
    arg,        \* its argument
    result      \* its outcome

vars == <<pc, rawRows, admitted, blocks, locRows, locations, op, arg, result>>

----------------------------------------------------------------------------
(* Bounds and input sets *)

\* Total number of CSV rows (blocks file plus locations file) read by GeoIPDB::new.
MaxRows == 2

Some(v) == [tag |-> "Some", value |-> v]
NoneVal == [tag |-> "None"]
Panic == [tag |-> "Panic"]
Ret(v) == [tag |-> "Ret", value |-> v]

Net(a, b, c, d, p) == [addr |-> <<a, b, c, d>>, prefix_len |-> p]

\* Networks of the block rows: a /16, a /24 nested in it, a /15 written with a
\* host bit set (its base is 1.2.0.0) and a /14 covering them all.
Networks == {Net(1, 3, 0, 0, 16), Net(1, 3, 0, 0, 24), Net(1, 3, 0, 0, 15), Net(1, 0, 0, 0, 14)}

GeonameIds == {1809935, 49518}
Latitudes == {23}
Longitudes == {113}
PostalCodes == {""}

IsSome(o) == o.tag = "Some"

\* The rows the blocks file may hold: every complete row over Networks, and
\* every incomplete pattern of the optional fields on one network.
RawBlocks ==
    {r \in [network : Networks,
            geoname_id : {NoneVal} \cup {Some(g) : g \in GeonameIds},
            postal_code : PostalCodes,
            latitude : {NoneVal} \cup {Some(x) : x \in Latitudes},
            longitude : {NoneVal} \cup {Some(x) : x \in Longitudes}] :
        \/ IsSome(r.geoname_id) /\ IsSome(r.latitude) /\ IsSome(r.longitude)
        \/ r.network = Net(1, 3, 0, 0, 16) /\ r.geoname_id \in {NoneVal, Some(1809935)}}

\* The rows the locations file may hold (the place names cut down to one field).
LocationRows == [geoname_id : GeonameIds, city_name : {"Guangzhou", "Kigali"}]

\* Ids get_location is asked for: those of the datasets and one in neither.
QueryIds == GeonameIds \cup {5819}

----------------------------------------------------------------------------
(* Ipv4Addr / Ipv4Net (std::net, ipnet) as lib.rs uses them *)

Pow2(n) == 2 ^ n

\* Number of network bits in octet i (1..4) of a prefix of length p.
OctetBits(p, i) == IF p >= 8 * i THEN 8 ELSE IF p <= 8 * (i - 1) THEN 0 ELSE p - 8 * (i - 1)

\* Ipv4Net::network(): the address with its host bits cleared.
network(n) == [i \in 1..4 |-> n.addr[i] - (n.addr[i] % Pow2(8 - OctetBits(n.prefix_len, i)))]

\* Ipv4Net::broadcast(): the address with its host bits set.
broadcast(n) == [i \in 1..4 |-> network(n)[i] + Pow2(8 - OctetBits(n.prefix_len, i)) - 1]

\* Ord on Ipv4Addr: lexicographic on the octets.
AddrLe(x, y) ==
    \/ x = y
    \/ \E i \in 1..4 : x[i] < y[i] /\ \A j \in 1..(i - 1) : x[j] = y[j]

\* Ipv4Net::contains(&Ipv4Addr): network() <= ip <= broadcast().
contains(n, ip) == AddrLe(network(n), ip) /\ AddrLe(ip, broadcast(n))

\* Ipv4Net::subnets(16) of a network of prefix < 16: its /16 sub-networks in
\* ascending order, from network() to broadcast().
subnets16(n) ==
    LET base == network(n)[1] * 256 + network(n)[2]
        count == Pow2(16 - n.prefix_len)
    IN  [i \in 1..count |-> Net((base + i - 1) \div 256, (base + i - 1) % 256, 0, 0, 16)]

----------------------------------------------------------------------------
(* Strings: the text of an address, and Ipv4Addr's FromStr *)

DigitValue ==
    ("0" :> 0) @@ ("1" :> 1) @@ ("2" :> 2) @@ ("3" :> 3) @@ ("4" :> 4) @@
    ("5" :> 5) @@ ("6" :> 6) @@ ("7" :> 7) @@ ("8" :> 8) @@ ("9" :> 9)

DigitChar == <<"0", "1", "2", "3", "4", "5", "6", "7", "8", "9">>

RECURSIVE DecimalText(_)
DecimalText(n) ==
    IF n < 10 THEN <<DigitChar[n + 1]>>
    ELSE DecimalText(n \div 10) \o <<DigitChar[(n % 10) + 1]>>

\* Display for Ipv4Addr: the dotted-decimal text of an address.
Display(ip) ==
    DecimalText(ip[1]) \o <<".">> \o DecimalText(ip[2]) \o <<".">> \o
    DecimalText(ip[3]) \o <<".">> \o DecimalText(ip[4])

\* The text split at every ".": the groups between the dots.
RECURSIVE SplitDots(_)
SplitDots(s) ==
    IF s = <<>> THEN << <<>> >>
    ELSE LET rest == SplitDots(Tail(s))
         IN  IF Head(s) = "." THEN << <<>> >> \o rest
             ELSE << <<Head(s)>> \o Head(rest) >> \o Tail(rest)

RECURSIVE DecimalValue(_)
DecimalValue(g) ==
    IF g = <<>> THEN 0
    ELSE DecimalValue(SubSeq(g, 1, Len(g) - 1)) * 10 + DigitValue[g[Len(g)]]

\* One octet of the text: one to three decimal digits, no leading zero, at most 255.
IsOctetText(g) ==
    /\ Len(g) \in 1..3
    /\ \A i \in 1..Len(g) : g[i] \in DOMAIN DigitValue
    /\ Len(g) > 1 => g[1] # "0"
    /\ DecimalValue(g) <= 255

\* str::parse::<Ipv4Addr>(): Ok(address) for four octets joined by dots, Err otherwise.
ParseIpv4Addr(s) ==
    LET groups == SplitDots(s)
    IN  IF Len(groups) = 4 /\ \A i \in 1..4 : IsOctetText(groups[i])
        THEN [tag |-> "Ok", value |-> [i \in 1..4 |-> DecimalValue(groups[i])]]
        ELSE [tag |-> "Err"]

\* Addresses asked of resolve, and texts that are no address.
QueryAddrs ==
    {<<1, 3, 4, 2>>, <<1, 3, 255, 255>>, <<1, 4, 0, 0>>, <<1, 3, 1, 0>>, <<1, 3, 0, 77>>, <<1, 2, 3, 4>>}

Malformed == {<<"n", "o", "t", "-", "a", "n", "-", "i", "p">>,
              <<"1", ".", "3", ".", "4">>,
              <<"2", "5", "6", ".", "3", ".", "4", ".", "2">>}

QueryStrings == {Display(ip) : ip \in QueryAddrs} \cup Malformed

----------------------------------------------------------------------------
(* GeoIPDB: keys, expansion, construction, lookup *)

\* Iterator::scan over the octets with the running multiplier `state`, summed.
RECURSIVE ScanSum(_, _)
ScanSum(values, state) ==
    IF values = <<>> THEN 0
    ELSE state * Head(values) + ScanSum(Tail(values), state \div 1000)

\* Mutant: the slice taken one octet late, octets()[1..3].
ipaddr_to_map_key_late_slice(ip_address) == ScanSum(SubSeq(ip_address, 2, 3), 1000)

\* Mutant: the scan started at 100, so the multiplier of the second octet is 100 / 1000 = 0.
ipaddr_to_map_key_state_100(ip_address) == ScanSum(SubSeq(ip_address, 1, 2), 100)

ipaddr_to_map_key(ip_address) == ScanSum(SubSeq(ip_address, 1, 2), 1000)

ipnet_to_map_key(ip_address) == ipaddr_to_map_key(ip_address.addr)

\* Mutant: no expansion, every network filed under the key of its own address.
expand_network_unexpanded(n) == <<ipnet_to_map_key(n)>>

\* Mutant: the threshold of the expansion at 8 instead of 16.
expand_network_below_8(n) ==
    IF n.prefix_len < 8
    THEN LET subs == subnets16(n)
         IN  [i \in 1..Len(subs) |-> ipnet_to_map_key(subs[i])]
    ELSE <<ipnet_to_map_key(n)>>

\* The Vec<u32> of keys a network is filed under.
expand_network(n) ==
    IF n.prefix_len < 16
    THEN LET subs == subnets16(n)
         IN  [i \in 1..Len(subs) |-> ipnet_to_map_key(subs[i])]
    ELSE <<ipnet_to_map_key(n)>>

\* parse_blocks_csv's filter: the row has all three optional fields.
IsComplete(record) ==
    IsSome(record.geoname_id) /\ IsSome(record.latitude) /\ IsSome(record.longitude)

\* Mutant: latitude and longitude exchanged.
ToBlockSwapped(rawblock) ==
    [network |-> rawblock.network,
     geoname_id |-> rawblock.geoname_id.value,
     postal_code |-> rawblock.postal_code,
     latitude |-> rawblock.longitude.value,
     longitude |-> rawblock.latitude.value]

\* parse_blocks_csv's map: the Block of a complete RawBlock.
ToBlock(rawblock) ==
    [network |-> rawblock.network,
     geoname_id |-> rawblock.geoname_id.value,
     postal_code |-> rawblock.postal_code,
     latitude |-> rawblock.latitude.value,
     longitude |-> rawblock.longitude.value]

\* Mutant: blocks.insert(key, vec![block]), which replaces the bucket.
PushBlockReplace(index, key, block) == (key :> <<block>>) @@ index

\* blocks.entry(key).or_insert(Vec::new()).push(block.clone())
PushBlock(index, key, block) ==
    IF key \in DOMAIN index
    THEN [index EXCEPT ![key] = Append(@, block)]
    ELSE (key :> <<block>>) @@ index

\* networks.iter().for_each(...): the block pushed under each of its keys in turn.
RECURSIVE PushAll(_, _, _)
PushAll(index, keys, block) ==
    IF keys = <<>> THEN index
    ELSE PushAll(PushBlock(index, Head(keys), block), Tail(keys), block)

\* Mutant: locations.entry(id).or_insert(location), which keeps the first row.
InsertLocationKeepFirst(map, location) == map @@ (location.geoname_id :> location)

\* locations.insert(location.geoname_id, location)
InsertLocation(map, location) == (location.geoname_id :> location) @@ map

\* Mutant: the last matching candidate instead of the first (rfind).
RECURSIVE FindLast(_, _)
FindLast(candidates, ip) ==
    IF candidates = <<>> THEN NoneVal
    ELSE IF contains(candidates[Len(candidates)].network, ip)
         THEN Some(candidates[Len(candidates)])
    ELSE FindLast(SubSeq(candidates, 1, Len(candidates) - 1), ip)

\* candidates.iter().find(|block| block.network.contains(&ip_address))
RECURSIVE Find(_, _)
Find(candidates, ip) ==
    IF candidates = <<>> THEN NoneVal
    ELSE IF contains(Head(candidates).network, ip) THEN Some(Head(candidates))
    ELSE Find(Tail(candidates), ip)

\* Mutant: the bucket lookup unwrapped too, so a key without bucket panics.
resolve_unwrap_bucket(index, ip_address) ==
    LET parsed == ParseIpv4Addr(ip_address)
    IN  IF parsed.tag # "Ok" THEN Panic
        ELSE LET key == ipaddr_to_map_key(parsed.value)
             IN  IF key \in DOMAIN index THEN Find(index[key], parsed.value)
                 ELSE Panic

\* GeoIPDB::resolve: the parse is unwrapped, so a text that is no address panics.
resolve(index, ip_address) ==
    LET parsed == ParseIpv4Addr(ip_address)
    IN  IF parsed.tag # "Ok" THEN Panic
        ELSE LET key == ipaddr_to_map_key(parsed.value)
             IN  IF key \in DOMAIN index THEN Find(index[key], parsed.value)
                 ELSE NoneVal

\* GeoIPDB::get_location: the lookup is unwrapped, so an absent id panics.
get_location(map, geoname_id) ==
    IF geoname_id \in DOMAIN map THEN Ret(map[geoname_id])
    ELSE Panic

----------------------------------------------------------------------------
(* The database: GeoIPDB::new row by row, then the lookups *)

Init ==
    /\ pc = "blocks"
    /\ rawRows = <<>>
    /\ admitted = <<>>
    /\ blocks = <<>>
    /\ locRows = <<>>
    /\ locations = <<>>
    /\ op = "none"
    /\ arg = NoneVal
    /\ result = NoneVal

RowsRead == Len(rawRows) + Len(locRows)

\* One row of the blocks file through parse_blocks_csv and the for_each of new.
ReadBlockRow(record) ==
    /\ pc = "blocks"
    /\ RowsRead < MaxRows
    /\ rawRows' = Append(rawRows, record)
    /\ IF IsComplete(record)
       THEN LET block == ToBlock(record)
            IN  /\ admitted' = Append(admitted, block)
                /\ blocks' = PushAll(blocks, expand_network(block.network), block)
       ELSE UNCHANGED <<admitted, blocks>>
    /\ UNCHANGED <<pc, locRows, locations, op, arg, result>>

\* The blocks file is exhausted: new goes on to the locations file.
EndBlocks ==
    /\ pc = "blocks"
    /\ pc' = "locations"
    /\ UNCHANGED <<rawRows, admitted, blocks, locRows, locations, op, arg, result>>

\* One row of the locations file through parse_locations_csv and the for_each of new.
ReadLocationRow(location) ==
    /\ pc = "locations"
    /\ RowsRead < MaxRows
    /\ locRows' = Append(locRows, location)
    /\ locations' = InsertLocation(locations, location)
    /\ UNCHANGED <<pc, rawRows, admitted, blocks, op, arg, result>>

\* The locations file is exhausted: new returns GeoIPDB { locations, blocks }.
EndLocations ==
    /\ pc = "locations"
    /\ pc' = "frozen"
    /\ UNCHANGED <<rawRows, admitted, blocks, locRows, locations, op, arg, result>>

Resolve(ip_address) ==
    /\ pc = "frozen"
    /\ op' = "resolve"
    /\ arg' = [ip_address |-> ip_address]
    /\ result' = resolve(blocks, ip_address)
    /\ UNCHANGED <<pc, rawRows, admitted, blocks, locRows, locations>>

GetLocation(geoname_id) ==
    /\ pc = "frozen"
    /\ op' = "get_location"
    /\ arg' = [geoname_id |-> geoname_id]
    /\ result' = get_location(locations, geoname_id)
    /\ UNCHANGED <<pc, rawRows, admitted, blocks, locRows, locations>>

Next ==
    \/ \E record \in RawBlocks : ReadBlockRow(record)
    \/ EndBlocks
    \/ \E location \in LocationRows : ReadLocationRow(location)
    \/ EndLocations
    \/ \E ip_address \in QueryStrings : Resolve(ip_address)
    \/ \E geoname_id \in QueryIds : GetLocation(geoname_id)

Spec == Init /\ [][Next]_vars

----------------------------------------------------------------------------
(* The key and expansion functions on their own, over a wider set of networks *)

\* Every first and second octet, with two choices of the last two.
KeyNets == {Net(a, b, cd[1], cd[2], 32) : a \in 0..255, b \in 0..255, cd \in {<<0, 0>>, <<255, 12>>}}

\* Every prefix length on a few addresses, host bits included.
ExpandNets ==
    {Net(ip[1], ip[2], ip[3], ip[4], p) :
        ip \in {<<0, 0, 0, 0>>, <<1, 3, 0, 0>>, <<172, 16, 0, 128>>, <<255, 255, 255, 0>>},
        p \in 0..32}

InitFn ==
    /\ pc = "pure"
    /\ rawRows = <<>>
    /\ admitted = <<>>
    /\ blocks = <<>>
    /\ locRows = <<>>
    /\ locations = <<>>
    /\ op = "none"
    /\ arg \in {[network |-> n] : n \in KeyNets \cup ExpandNets}
    /\ result = NoneVal

IpaddrToMapKey ==
    /\ pc = "pure" /\ op = "none"
    /\ op' = "ipaddr_to_map_key"
    /\ result' = Ret(ipaddr_to_map_key(arg.network.addr))
    /\ UNCHANGED <<pc, rawRows, admitted, blocks, locRows, locations, arg>>

IpnetToMapKey ==
    /\ pc = "pure" /\ op = "none"
    /\ op' = "ipnet_to_map_key"
    /\ result' = Ret(ipnet_to_map_key(arg.network))
    /\ UNCHANGED <<pc, rawRows, admitted, blocks, locRows, locations, arg>>

ExpandNetwork ==
    /\ pc = "pure" /\ op = "none"
    /\ op' = "expand_network"
    /\ result' = Ret(expand_network(arg.network))
    /\ UNCHANGED <<pc, rawRows, admitted, blocks, locRows, locations, arg>>

NextFn == IpaddrToMapKey \/ IpnetToMapKey \/ ExpandNetwork

SpecFn == InitFn /\ [][NextFn]_vars

----------------------------------------------------------------------------
(* What the claims speak of, stated apart from the code's own operators *)

\* CIDR containment: the address, masked by the prefix length, is the network's base.
CidrContains(n, ip) ==
    \A i \in 1..4 :
        ip[i] \div Pow2(8 - OctetBits(n.prefix_len, i))
            = n.addr[i] \div Pow2(8 - OctetBits(n.prefix_len, i))

BucketKey(ip) == 1000 * ip[1] + ip[2]

Range(s) == {s[i] : i \in 1..Len(s)}

Min(S) == CHOOSE x \in S : \A y \in S : x <= y
Max(S) == CHOOSE x \in S : \A y \in S : x >= y

\* The first element of a sequence of blocks whose network contains the address.
LinearScan(seq, ip) ==
    LET hits == {i \in 1..Len(seq) : CidrContains(seq[i].network, ip)}
    IN  IF hits = {} THEN NoneVal ELSE Some(seq[Min(hits)])

Bucket(key) == IF key \in DOMAIN blocks THEN blocks[key] ELSE <<>>

\* A resolve call with a well-formed address has returned or panicked.
ResolvedAddress == op = "resolve" /\ ParseIpv4Addr(arg.ip_address).tag = "Ok"

QueriedAddress == ParseIpv4Addr(arg.ip_address).value

----------------------------------------------------------------------------
(* C1: resolve of a well-formed address returns the first block, in the
   stored order of the bucket of the address's key, whose network contains
   the address; among several containing blocks of that bucket it is the
   one that arrived earliest in the dataset, whatever the prefix lengths. *)
C1_FirstMatchInBucket ==
    ResolvedAddress =>
        LET ip == QueriedAddress
            bucket == Bucket(BucketKey(ip))
            arrived == {j \in 1..Len(admitted) :
                            /\ admitted[j] \in Range(bucket)
                            /\ CidrContains(admitted[j].network, ip)}
        IN  /\ result = LinearScan(bucket, ip)
            /\ arrived # {} => result = Some(admitted[Min(arrived)])

\* resolve returned a block although a later block of the bucket, with a longer
\* prefix, contains the address too.
C1_Witness ==
    /\ ResolvedAddress
    /\ result.tag = "Some"
    /\ \E i \in 1..Len(Bucket(BucketKey(QueriedAddress))) :
        LET other == Bucket(BucketKey(QueriedAddress))[i]
        IN  /\ CidrContains(other.network, QueriedAddress)
            /\ other.network.prefix_len > result.value.network.prefix_len

(* C2: the bucketed resolve answers as a linear scan of all admitted blocks
   in arrival order under CIDR containment: a block is returned if and only
   if some admitted block contains the address, and it is the first such. *)
C2_SameAsLinearScan ==
    ResolvedAddress =>
        /\ result = LinearScan(admitted, QueriedAddress)
        /\ result.tag = "Some" <=>
            \E j \in 1..Len(admitted) : CidrContains(admitted[j].network, QueriedAddress)

\* A block broader than /16 answers an address whose key is not the key of the
\* block's own address, while the bucket starts with a block of the same key
\* that does not contain the address.
C2_Witness ==
    /\ ResolvedAddress
    /\ result.tag = "Some"
    /\ result.value.network.prefix_len < 16
    /\ BucketKey(QueriedAddress) # BucketKey(network(result.value.network))
    /\ ~CidrContains(Bucket(BucketKey(QueriedAddress))[1].network, QueriedAddress)

(* C3: the key of an address a.b.c.d is 1000*a + b, whatever c and d, and
   lies in 0..255255; the key of a network is the key of its address. *)
C3_KeyFormula ==
    /\ op = "ipaddr_to_map_key" =>
        LET ip == arg.network.addr
        IN  /\ result.value = 1000 * ip[1] + ip[2]
            /\ result.value \in 0..255255
            /\ result.value = ipaddr_to_map_key(<<ip[1], ip[2], 0, 0>>)
    /\ op = "ipnet_to_map_key" =>
        result.value = 1000 * arg.network.addr[1] + arg.network.addr[2]

\* The key of 255.255.255.12 has been computed.
C3_Witness ==
    /\ op = "ipaddr_to_map_key"
    /\ arg.network.addr = <<255, 255, 255, 12>>
    /\ result.value = 255255

\* The /16 networks a.b.0.0/16 that lie wholly inside n, as pairs <<a, b>>.
Slash16sInside(n) ==
    LET lo == network(n)
        hi == broadcast(n)
    IN  {ab \in (0..255) \X (0..255) :
            /\ AddrLe(lo, <<ab[1], ab[2], 0, 0>>)
            /\ AddrLe(<<ab[1], ab[2], 255, 255>>, hi)}

(* C4: expand of a network of prefix >= 16 is the one key of its base
   address; of prefix p < 16 it is 2^(16-p) pairwise distinct keys, the keys
   of exactly the /16 networks contained in the network. *)
C4_Expansion ==
    op = "expand_network" =>
        LET n == arg.network
            keys == result.value
        IN  IF n.prefix_len >= 16
            THEN keys = <<BucketKey(network(n))>>
            ELSE /\ Len(keys) = Pow2(16 - n.prefix_len)
                 /\ Cardinality(Range(keys)) = Len(keys)
                 /\ Range(keys) = {BucketKey(<<ab[1], ab[2], 0, 0>>) : ab \in Slash16sInside(n)}

\* A network broader than /16, written with host bits, has been expanded.
C4_Witness ==
    /\ op = "expand_network"
    /\ arg.network = Net(172, 16, 0, 128, 12)
    /\ Len(result.value) = 16

(* C5: resolve of a text that is no IPv4 address returns an InvalidAddress
   error to the caller: neither no-match nor a panic. *)
C5_InvalidAddressIsAnError ==
    (op = "resolve" /\ ParseIpv4Addr(arg.ip_address).tag # "Ok") =>
        result = [tag |-> "Err", error |-> "InvalidAddress"]

(* C6: get_location returns the Location stored under the id when the id is
   in the map, and an UnknownGeonameId error value, not a panic, when it is
   absent. *)
C6_UnknownIdIsAnError ==
    op = "get_location" =>
        IF arg.geoname_id \in DOMAIN locations
        THEN result = Ret(locations[arg.geoname_id])
        ELSE result = [tag |-> "Err", error |-> "UnknownGeonameId"]

(* C7: no-match is a normal result: resolve of a well-formed address returns
   None, without panicking, when the index has no bucket for the key or no
   candidate of the bucket contains the address; from an empty block
   sequence every well-formed address resolves to None. *)
C7_NoMatchIsNone ==
    ResolvedAddress =>
        LET ip == QueriedAddress
            key == BucketKey(ip)
        IN  /\ result # Panic
            /\ key \notin DOMAIN blocks => result = NoneVal
            /\ (key \in DOMAIN blocks
                    /\ \A i \in 1..Len(blocks[key]) : ~CidrContains(blocks[key][i].network, ip))
                => result = NoneVal
            /\ admitted = <<>> => result = NoneVal

\* resolve returned None for an address whose key has no bucket.
C7_Witness ==
    /\ ResolvedAddress
    /\ BucketKey(QueriedAddress) \notin DOMAIN blocks
    /\ admitted # <<>>
    /\ result = NoneVal

AllThreePresent(row) ==
    row.geoname_id # NoneVal /\ row.latitude # NoneVal /\ row.longitude # NoneVal

(* C8: a raw block row is admitted if and only if geoname_id, latitude and
   longitude are all present; the admitted rows keep their input order and
   their field values, and every block of every bucket has all three. *)
C8_RowFiltering ==
    LET kept == SelectSeq(rawRows, AllThreePresent)
    IN  /\ Len(admitted) = Len(kept)
        /\ \A i \in 1..Len(admitted) :
            /\ admitted[i].network = kept[i].network
            /\ Some(admitted[i].geoname_id) = kept[i].geoname_id
            /\ admitted[i].postal_code = kept[i].postal_code
            /\ Some(admitted[i].latitude) = kept[i].latitude
            /\ Some(admitted[i].longitude) = kept[i].longitude
        /\ \A key \in DOMAIN blocks : \A i \in 1..Len(blocks[key]) :
            /\ blocks[key][i].geoname_id \in GeonameIds
            /\ blocks[key][i].latitude \in Latitudes
            /\ blocks[key][i].longitude \in Longitudes

\* An incomplete row was dropped and the complete row after it admitted and filed.
C8_Witness ==
    /\ Len(rawRows) = 2
    /\ Len(admitted) = 1
    /\ ~AllThreePresent(rawRows[1])
    /\ blocks # <<>>

(* C9: after the build, the bucket of key k holds exactly the admitted
   blocks whose expansion has k, each once per arrival and in arrival order,
   and no bucket is empty. *)
C9_BucketContents ==
    pc = "frozen" =>
        LET keysOf(b) == Range(expand_network(b.network))
            allKeys == UNION {keysOf(admitted[j]) : j \in 1..Len(admitted)}
        IN  /\ DOMAIN blocks = allKeys
            /\ \A key \in DOMAIN blocks :
                LET HasKey(b) == key \in keysOf(b)
                IN  /\ blocks[key] # <<>>
                    /\ blocks[key] = SelectSeq(admitted, HasKey)

\* Two different blocks share a bucket and one of them has a bucket to itself.
C9_Witness ==
    /\ pc = "frozen"
    /\ \E k1, k2 \in DOMAIN blocks :
        /\ Len(blocks[k1]) = 2
        /\ blocks[k1][1] # blocks[k1][2]
        /\ Len(blocks[k2]) = 1

(* C10: after the build, the location map has one entry per distinct
   geoname_id of the location rows, and the entry of an id is the last row
   carrying it. *)
C10_LastWriteWins ==
    pc = "frozen" =>
        /\ DOMAIN locations = {locRows[i].geoname_id : i \in 1..Len(locRows)}
        /\ \A id \in DOMAIN locations :
            locations[id] = locRows[Max({i \in 1..Len(locRows) : locRows[i].geoname_id = id})]

\* Two rows carried the same id with different contents.
C10_Witness ==
    /\ pc = "frozen"
    /\ Len(locRows) = 2
    /\ locRows[1].geoname_id = locRows[2].geoname_id
    /\ locRows[1] # locRows[2]

----------------------------------------------------------------------------
(* Concurrent callers: resolve and get_location step by step on a shared &GeoIPDB *)

\* Number of threads calling into the database at once.
NumCallers == 2

Callers == 1..NumCallers

\* The rows of the two files, and what the callers ask, in the concurrent runs.
ConcRawBlocks ==
    {r \in RawBlocks :
        \/ r.network = Net(1, 3, 0, 0, 16) /\ r.geoname_id = Some(1809935) /\ IsComplete(r)
        \/ r.network = Net(1, 0, 0, 0, 14) /\ r.geoname_id = Some(49518)
        \/ r.geoname_id = NoneVal /\ IsSome(r.latitude) /\ IsSome(r.longitude)}

ConcLocationRows == {l \in LocationRows : l.city_name = "Guangzhou"}

ConcStrings == {Display(<<1, 3, 4, 2>>), <<"n", "o", "t", "-", "a", "n", "-", "i", "p">>}

ConcIds == {1809935, 5819}

\* Mutant: the bucket fetched with entry(key).or_insert(Vec::new()), which files
\* an empty bucket under a key the index did not have.
IndexAfterEntry(index, key) ==
    IF key \in DOMAIN index THEN index ELSE (key :> <<>>) @@ index

\* self.blocks.get(&key) borrows the map immutably: the index after the lookup.
IndexAfterGet(index, key) == index

InitConc ==
    /\ pc = "blocks"
    /\ rawRows = <<>>
    /\ admitted = <<>>
    /\ blocks = <<>>
    /\ locRows = <<>>
    /\ locations = <<>>
    /\ op = [c \in Callers |-> "idle"]
    /\ arg = [c \in Callers |-> NoneVal]
    /\ result = [c \in Callers |-> NoneVal]

\* A caller enters resolve(&self, ip_address).
CallResolve(c, ip_address) ==
    /\ pc = "frozen" /\ op[c] = "idle"
    /\ op' = [op EXCEPT ![c] = "resolve"]
    /\ arg' = [arg EXCEPT ![c] = [ip_address |-> ip_address]]
    /\ result' = [result EXCEPT ![c] = NoneVal]
    /\ UNCHANGED <<pc, rawRows, admitted, blocks, locRows, locations>>

\* ip_address.parse::<Ipv4Addr>().unwrap(): the address, or the caller panics.
ResolveParse(c) ==
    /\ pc = "frozen" /\ op[c] = "resolve"
    /\ LET parsed == ParseIpv4Addr(arg[c].ip_address)
       IN  IF parsed.tag = "Ok"
           THEN /\ op' = [op EXCEPT ![c] = "parsed"]
                /\ result' = [result EXCEPT ![c] = [ip_address |-> parsed.value]]
           ELSE /\ op' = [op EXCEPT ![c] = "done"]
                /\ result' = [result EXCEPT ![c] = Panic]
    /\ UNCHANGED <<pc, rawRows, admitted, blocks, locRows, locations, arg>>

\* self.blocks.get(&key): the caller holds a reference to the bucket, if any.
ResolveGet(c) ==
    /\ pc = "frozen" /\ op[c] = "parsed"
    /\ LET ip == result[c].ip_address
           key == ipaddr_to_map_key(ip)
       IN  /\ result' = [result EXCEPT ![c] =
                            [ip_address |-> ip,
                             candidates |-> IF key \in DOMAIN blocks THEN Some(key) ELSE NoneVal]]
           /\ blocks' = IndexAfterGet(blocks, key)
    /\ op' = [op EXCEPT ![c] = "candidates"]
    /\ UNCHANGED <<pc, rawRows, admitted, locRows, locations, arg>>

\* candidates.and_then(|candidates| candidates.iter().find(...)): the scan of the
\* bucket the reference points to, as the index holds it now.
ResolveFind(c) ==
    /\ pc = "frozen" /\ op[c] = "candidates"
    /\ result' = [result EXCEPT ![c] =
                    IF result[c].candidates = NoneVal THEN NoneVal
                    ELSE Find(blocks[result[c].candidates.value], result[c].ip_address)]
    /\ op' = [op EXCEPT ![c] = "done"]
    /\ UNCHANGED <<pc, rawRows, admitted, blocks, locRows, locations, arg>>

\* A caller enters get_location(&self, geoname_id).
CallGetLocation(c, geoname_id) ==
    /\ pc = "frozen" /\ op[c] = "idle"
    /\ op' = [op EXCEPT ![c] = "get_location"]
    /\ arg' = [arg EXCEPT ![c] = [geoname_id |-> geoname_id]]
    /\ result' = [result EXCEPT ![c] = NoneVal]
    /\ UNCHANGED <<pc, rawRows, admitted, blocks, locRows, locations>>

\* self.locations.get(&geoname_id).unwrap()
GetLocationUnwrap(c) ==
    /\ pc = "frozen" /\ op[c] = "get_location"
    /\ result' = [result EXCEPT ![c] = get_location(locations, arg[c].geoname_id)]
    /\ op' = [op EXCEPT ![c] = "done"]
    /\ UNCHANGED <<pc, rawRows, admitted, blocks, locRows, locations, arg>>

\* The caller is done with the outcome and free to call again.
Return(c) ==
    /\ pc = "frozen" /\ op[c] = "done"
    /\ op' = [op EXCEPT ![c] = "idle"]
    /\ arg' = [arg EXCEPT ![c] = NoneVal]
    /\ result' = [result EXCEPT ![c] = NoneVal]
    /\ UNCHANGED <<pc, rawRows, admitted, blocks, locRows, locations>>

NextConc ==
    \/ \E record \in ConcRawBlocks : ReadBlockRow(record)
    \/ EndBlocks
    \/ \E location \in ConcLocationRows : ReadLocationRow(location)
    \/ EndLocations
    \/ \E c \in Callers, ip_address \in ConcStrings : CallResolve(c, ip_address)
    \/ \E c \in Callers : ResolveParse(c)
    \/ \E c \in Callers : ResolveGet(c)
    \/ \E c \in Callers : ResolveFind(c)
    \/ \E c \in Callers, geoname_id \in ConcIds : CallGetLocation(c, geoname_id)
    \/ \E c \in Callers : GetLocationUnwrap(c)
    \/ \E c \in Callers : Return(c)

SpecConc == InitConc /\ [][NextConc]_vars

\* What the call in arg[c] gives when it runs alone on the built database.
AloneOutcome(call) ==
    IF "ip_address" \in DOMAIN call THEN resolve(blocks, call.ip_address)
    ELSE get_location(locations, call.geoname_id)

(* C11: once new has returned, no step of any caller's resolve or
   get_location, however the callers interleave, changes the index or the
   location map, and a call that completes has the outcome it would have had
   running alone on the built database. *)
C11_FrozenAfterBuild ==
    [][pc = "frozen" =>
        /\ pc' = "frozen"
        /\ blocks' = blocks
        /\ locations' = locations
        /\ admitted' = admitted
        /\ \A c \in Callers :
            (op[c] # "done" /\ op'[c] = "done") => result'[c] = AloneOutcome(arg[c])]_vars

\* One caller has a block from resolve while another is between its bucket
\* lookup and its scan.
C11_Witness ==
    /\ pc = "frozen"
    /\ \E c1, c2 \in Callers :
        /\ c1 # c2
        /\ op[c1] = "done" /\ result[c1].tag = "Some"
        /\ op[c2] = "candidates"

----------------------------------------------------------------------------
(* Two addresses keyed side by side, next to the database runs *)

\* Octets at the ends, the middle and around the multiplier's digits.
OctetSamples == {0, 1, 2, 3, 100, 127, 128, 254, 255}

PairAddrs == {<<a, b, c, 0>> : a \in OctetSamples, b \in OctetSamples, c \in {0, 255}}

InitPair ==
    /\ pc = "pure"
    /\ rawRows = <<>>
    /\ admitted = <<>>
    /\ blocks = <<>>
    /\ locRows = <<>>
    /\ locations = <<>>
    /\ op = "none"
    /\ arg \in [first : PairAddrs, second : PairAddrs]
    /\ result = NoneVal

\* The keys of two addresses, as the HashMap compares them in entry() and get().
KeyPair ==
    /\ pc = "pure" /\ op = "none"
    /\ op' = "key_pair"
    /\ result' = Ret(<<ipaddr_to_map_key(arg.first), ipaddr_to_map_key(arg.second)>>)
    /\ UNCHANGED <<pc, rawRows, admitted, blocks, locRows, locations, arg>>

InitKeys == Init \/ InitPair

NextKeys == Next \/ KeyPair

SpecKeys == InitKeys /\ [][NextKeys]_vars

\* The network shares an address with a.b.0.0/16: they agree on the first
\* 16 bits, or on the network's whole prefix when it is shorter.
Intersects16(n, a, b) ==
    CidrContains([addr |-> n.addr, prefix_len |-> Min({n.prefix_len, 16})], <<a, b, 0, 0>>)

(* C12: two addresses have the same bucket key if and only if they have the
   same first and the same second octet, so every bucket of the index holds
   only blocks whose network intersects the one /16 its key stands for. *)
C12_KeyInjective ==
    /\ op = "key_pair" =>
        (result.value[1] = result.value[2]
            <=> (arg.first[1] = arg.second[1] /\ arg.first[2] = arg.second[2]))
    /\ pc # "pure" =>
        \A key \in DOMAIN blocks :
            /\ key \div 1000 \in 0..255
            /\ key % 1000 \in 0..255
            /\ \A i \in 1..Len(blocks[key]) :
                Intersects16(blocks[key][i].network, key \div 1000, key % 1000)

\* Two addresses that differ in the first and in the second octet were keyed apart,
\* where the sum of the octets' digits alone would not tell them apart.
C12_Witness ==
    /\ op = "key_pair"
    /\ arg.first = <<1, 100, 0, 0>>
    /\ arg.second = <<2, 0, 255, 0>>
    /\ result.value[1] # result.value[2]

====
